---- MODULE Spec2Model ----
(***************************************************************************)
(* Neuro-Traffic: a four-way intersection whose signal is driven by a      *)
(* fuzzy-logic engine (src/app.py, src/car.py, src/fuzzy_logic.py).        *)
(*                                                                         *)
(* Units.  The source computes in floats.  Every length, position and      *)
(* speed of src/car.py and src/app.py is a multiple of 0.5, so the model   *)
(* keeps them as integers counted in half-units (x = 2 * source x).  The   *)
(* fuzzy engine's quantities are exact rationals <<numerator,              *)
(* denominator>> in lowest terms.                                          *)
(***************************************************************************)
EXTENDS Integers, Sequences, FiniteSets, TLC

(***************************************************************************)
(* Exact rational arithmetic (the reals the source's floats stand for).    *)
(***************************************************************************)
Abs(x) == IF x < 0 THEN -x ELSE x

RECURSIVE Gcd(_, _)
Gcd(a, b) == IF b = 0 THEN a ELSE Gcd(b, a % b)

\* n/d in lowest terms with a positive denominator (d # 0).
Rat(n, d) ==
    LET s == IF d < 0 THEN -1 ELSE 1
        g == Gcd(Abs(n), Abs(d))
    IN  <<(s * n) \div g, (s * d) \div g>>

RInt(n) == <<n, 1>>

\* tenths: Dec(8) is the source literal 0.8
Dec(t) == Rat(t, 10)

RNeg(a) == <<-a[1], a[2]>>

RAdd(a, b) ==
    LET g == Gcd(a[2], b[2])
    IN  Rat(a[1] * (b[2] \div g) + b[1] * (a[2] \div g), (a[2] \div g) * b[2])

RSub(a, b) == RAdd(a, RNeg(b))

RMul(a, b) ==
    LET g1 == Gcd(Abs(a[1]), b[2])
        g2 == Gcd(Abs(b[1]), a[2])
    IN  <<(a[1] \div g1) * (b[1] \div g2), (a[2] \div g2) * (b[2] \div g1)>>

\* a / b for b > 0
RDiv(a, b) == RMul(a, <<b[2], b[1]>>)

\* n1/d1 < n2/d2 by comparing integer parts, then the reciprocals of the
\* fractional parts (no product is formed, so no intermediate grows).
RECURSIVE FracLt(_, _, _, _)
FracLt(n1, d1, n2, d2) ==
    LET q1 == n1 \div d1
        q2 == n2 \div d2
        r1 == n1 % d1
        r2 == n2 % d2
    IN  IF q1 # q2 THEN q1 < q2
        ELSE IF r2 = 0 THEN FALSE
        ELSE IF r1 = 0 THEN TRUE
        ELSE FracLt(d2, r2, d1, r1)

RLt(a, b) == FracLt(a[1], a[2], b[1], b[2])
RLe(a, b) == ~RLt(b, a)
RMin(a, b) == IF RLt(b, a) THEN b ELSE a
RMax(a, b) == IF RLt(a, b) THEN b ELSE a
RMin3(a, b, c) == RMin(RMin(a, b), c)
RMax3(a, b, c) == RMax(RMax(a, b), c)

(***************************************************************************)
(* src/fuzzy_logic.py: FuzzyLogicController                                *)
(***************************************************************************)
SATURATION_HEADWAY == 2
PATIENCE_THRESHOLD == 45

CLEAR_SHORT == <<Dec(0), Dec(0), Dec(60), Dec(140)>>
CLEAR_MED   == <<Dec(100), Dec(180), Dec(300), Dec(450)>>
CLEAR_LONG  == <<Dec(300), Dec(450), Dec(800), Dec(800)>>

IMBAL_LOW   == <<Dec(0), Dec(0), Dec(8), Dec(20)>>
IMBAL_MED   == <<Dec(15), Dec(25), Dec(40), Dec(60)>>
IMBAL_HIGH  == <<Dec(40), Dec(60), Dec(150), Dec(150)>>

URG_LOW     == <<Dec(0), Dec(0), Dec(4), Dec(10)>>
URG_MED     == <<Dec(7), Dec(12), Dec(18), Dec(25)>>
URG_HIGH    == <<Dec(18), Dec(25), Dec(60), Dec(60)>>

RULE_WEIGHTS ==
    [keep_clearing    |-> Dec(18),
     keep_efficient   |-> Dec(13),
     keep_batch       |-> Dec(16),
     switch_imbalance |-> Dec(11),
     switch_urgent    |-> Dec(13),
     switch_empty     |-> Dec(16),
     conflict         |-> Dec(6),
     balance          |-> Dec(8)]

OUT_SWITCH_CENTROID == 15
OUT_BALANCE_CENTROID == 50
OUT_KEEP_CENTROID == 85

\* trapmf(x, abcd): the tests are made in the source's order.
trapmf(x, abcd) ==
    LET a == abcd[1]
        b == abcd[2]
        c == abcd[3]
        d == abcd[4]
    IN  IF RLe(x, a) \/ RLe(d, x) THEN RInt(0)
        ELSE IF RLe(b, x) /\ RLe(x, c) THEN RInt(1)
        ELSE IF RLt(a, x) /\ RLt(x, b) THEN RDiv(RSub(x, a), RSub(b, a))
        ELSE IF RLt(c, x) /\ RLt(x, d) THEN RDiv(RSub(d, x), RSub(d, c))
        ELSE RInt(0)

calc_clearance_time(queue_length) == RInt(queue_length * SATURATION_HEADWAY)

calc_imbalance_ratio(active_q, max_waiting_q) == Rat(max_waiting_q, active_q + 1)

calc_urgency_index(max_wait_time, max_waiting_q) ==
    LET time_factor  == RDiv(max_wait_time, RInt(PATIENCE_THRESHOLD))
        queue_factor == RAdd(RInt(1), Rat(max_waiting_q, 10))
    IN  RMul(time_factor, queue_factor)

\* 1. fuzzification: the nine membership degrees
Fuzzify(clearance_time, imbalance_ratio, urgency_index) ==
    [clear_short |-> trapmf(clearance_time, CLEAR_SHORT),
     clear_med   |-> trapmf(clearance_time, CLEAR_MED),
     clear_long  |-> trapmf(clearance_time, CLEAR_LONG),
     imbal_low   |-> trapmf(imbalance_ratio, IMBAL_LOW),
     imbal_med   |-> trapmf(imbalance_ratio, IMBAL_MED),
     imbal_high  |-> trapmf(imbalance_ratio, IMBAL_HIGH),
     urg_low     |-> trapmf(urgency_index, URG_LOW),
     urg_med     |-> trapmf(urgency_index, URG_MED),
     urg_high    |-> trapmf(urgency_index, URG_HIGH)]

\* 2. rule evaluation: the strengths of the individual rules
RuleStrengths(mu, active_q, active_queue_factor, switch_damping) ==
    [r1_clearing  |->
        RMul(RMul(RMin(mu.clear_long, RSub(RInt(1), mu.urg_high)),
                  RULE_WEIGHTS.keep_clearing),
             RAdd(RInt(1), RMul(active_queue_factor, Dec(5)))),
     r1_efficient |->
        RMul(RMin3(mu.imbal_low, mu.clear_med, RSub(RInt(1), mu.urg_high)),
             RULE_WEIGHTS.keep_efficient),
     r1_batch     |->
        RMul(RMul(RMin3(RMax(mu.clear_med, mu.clear_long), mu.imbal_low, mu.urg_low),
                  RULE_WEIGHTS.keep_batch),
             RAdd(RInt(1), RMul(active_queue_factor, Dec(3)))),
     r2_imbalance |->
        RMul(RMul(RMin(mu.imbal_high, RMax(mu.clear_short, mu.clear_med)),
                  RULE_WEIGHTS.switch_imbalance), switch_damping),
     r2_urgent    |-> RMul(RMul(mu.urg_high, RULE_WEIGHTS.switch_urgent), switch_damping),
     r2_empty     |->
        RMul(RMin(mu.clear_short, RMax(mu.imbal_med, mu.imbal_high)),
             RULE_WEIGHTS.switch_empty),
     r2_combined  |->
        RMul(RMul(RMin(mu.imbal_med, mu.urg_med), RULE_WEIGHTS.balance), switch_damping),
     r3_conflict  |-> RMul(RMin(mu.clear_long, mu.urg_high), RULE_WEIGHTS.conflict),
     r3_balanced  |->
        RMul(RMin3(mu.clear_med, mu.imbal_med, mu.urg_med), RULE_WEIGHTS.balance)]

\* the aggregation by maximum: r1_total, r2_total, r3_total
RuleTotals(r) ==
    [r1_total |-> RMax3(r.r1_clearing, r.r1_efficient, r.r1_batch),
     r2_total |-> RMax(RMax3(r.r2_imbalance, r.r2_urgent, r.r2_empty), r.r2_combined),
     r3_total |-> RMax(r.r3_conflict, r.r3_balanced)]

WithTotals(r) == r @@ RuleTotals(r)

EvalRules(mu, active_q) ==
    WithTotals(RuleStrengths(mu, active_q,
                             RMin(RInt(1), Rat(active_q, 10)),
                             RMax(Dec(3), RSub(RInt(1), Rat(active_q, 25)))))

\* 3. defuzzification: weighted average of the three centroids
Defuzzify(r1_total, r2_total, r3_total) ==
    LET num == RAdd(RAdd(RMul(r1_total, RInt(OUT_KEEP_CENTROID)),
                         RMul(r2_total, RInt(OUT_SWITCH_CENTROID))),
                    RMul(r3_total, RInt(OUT_BALANCE_CENTROID)))
        den == RAdd(RAdd(RAdd(r1_total, r2_total), r3_total), Rat(1, 1000))
    IN  RDiv(num, den)

\* faulty variant of BatchBonus: no bonus is given
BatchBonusNone(active_q, urgency_index) == RInt(0)

\* 4. adjustments
BatchBonus(active_q, urgency_index) ==
    IF active_q > 3 /\ RLt(urgency_index, RInt(2))
    THEN LET base == RMin(RInt(25), Rat((active_q - 3) * 15, 10))
         IN  IF active_q > 15
             THEN RAdd(base, RMin(RInt(10), RInt((active_q - 15) * 2)))
             ELSE base
    ELSE RInt(0)

\* faulty variant of EmptyPenalty: the penalty is added instead of subtracted
EmptyPenaltyAdded(active_q, max_waiting_q) ==
    IF active_q <= 1 /\ max_waiting_q > 2 THEN RInt(25) ELSE RInt(0)

EmptyPenalty(active_q, max_waiting_q) ==
    IF active_q <= 1 /\ max_waiting_q > 2 THEN RInt(-25) ELSE RInt(0)

UrgencyPenalty(urgency_index) ==
    IF RLt(Dec(25), urgency_index)
    THEN RMul(RInt(-8), RSub(urgency_index, Dec(25)))
    ELSE RInt(0)

\* "score += batch_bonus ... score -= 25 ... score -= (urgency_index - 2.5) * 8":
\* the defuzzified score with the three adjustments, before the clamp
Adjusted(active_q, max_waiting_q, urgency_index, r) ==
    RAdd(RAdd(RAdd(Defuzzify(r.r1_total, r.r2_total, r.r3_total),
                   BatchBonus(active_q, urgency_index)),
              EmptyPenalty(active_q, max_waiting_q)),
         UrgencyPenalty(urgency_index))

\* faulty variant of ClampScore: no clamp
ClampScoreOff(raw) == raw

\* score = max(0, min(100, ...))
ClampScore(raw) == RMax(RInt(0), RMin(RInt(100), raw))

\* the tuple calculate returns, (score, mu_clear, mu_imbal, mu_urg, mu_flow,
\* rules, sets), as a record; last_inputs is the value stored in
\* self._last_inputs.  mu are the membership degrees, r the rule strengths.
CalcResult(active_q, max_waiting_q, clearance_time, imbalance_ratio, urgency_index, mu, r) ==
    [score    |-> ClampScore(Adjusted(active_q, max_waiting_q, urgency_index, r)),
     mu_clear |-> <<mu.clear_short, mu.clear_med, mu.clear_long>>,
     mu_imbal |-> <<mu.imbal_low, mu.imbal_med, mu.imbal_high>>,
     mu_urg   |-> <<mu.urg_low, mu.urg_med, mu.urg_high>>,
     mu_flow  |-> <<0, 0, 0>>,
     rules    |-> <<r.r1_clearing, r.r1_efficient, r.r1_batch, r.r2_imbalance,
                    r.r2_empty, r.r2_urgent, r.r3_balanced, r.r3_conflict,
                    r.r3_total, r.r1_total>>,
     sets     |-> <<CLEAR_SHORT, CLEAR_MED, CLEAR_LONG,
                    IMBAL_LOW, IMBAL_MED, IMBAL_HIGH,
                    URG_LOW, URG_MED, URG_HIGH>>,
     last_inputs |-> [clearance_time  |-> clearance_time,
                      imbalance_ratio |-> imbalance_ratio,
                      urgency_index   |-> urgency_index]]

\* calculate from the three crisp inputs on: fuzzification, then the rules
CalcRules(active_q, max_waiting_q, clearance_time, imbalance_ratio, urgency_index, mu) ==
    CalcResult(active_q, max_waiting_q, clearance_time, imbalance_ratio, urgency_index,
               mu, EvalRules(mu, active_q))

CalcInputs(active_q, max_waiting_q, clearance_time, imbalance_ratio, urgency_index) ==
    CalcRules(active_q, max_waiting_q, clearance_time, imbalance_ratio, urgency_index,
              Fuzzify(clearance_time, imbalance_ratio, urgency_index))

\* FuzzyLogicController.calculate(active_q, max_waiting_q, max_wait_time, flow_ratio);
\* flow_ratio is accepted and not read
calculate(active_q, max_waiting_q, max_wait_time, flow_ratio) ==
    CalcInputs(active_q, max_waiting_q,
               calc_clearance_time(active_q),
               calc_imbalance_ratio(active_q, max_waiting_q),
               calc_urgency_index(max_wait_time, max_waiting_q))

(***************************************************************************)
(* src/car.py: Car.  Lengths are in half-units: H(v) is the source length  *)
(* v.  A car is a record; id is the identity of the Python object.         *)
(***************************************************************************)
H(v) == 2 * v

Lanes == {"N", "S", "E", "W"}

gap == 60
stop_line_offset == 120
max_speed == 8
\* self.accel = 0.5, i.e. one half-unit per tick
accel == 1
decel == 1

\* Car.__init__(lane, canvas_width, canvas_height); cx = w / 2 is w half-units
NewCar(id, lane, w, h) ==
    LET base == [id |-> id, lane |-> lane, cx |-> w, cy |-> h,
                 is_virtual |-> FALSE, speed |-> 0, wait_time |-> 0,
                 counted |-> FALSE]
    IN  CASE lane = "N" ->
               base @@ [x |-> w - gap, y |-> H(-50), stop |-> h - H(stop_line_offset)]
          [] lane = "S" ->
               base @@ [x |-> w + gap, y |-> H(h + 50), stop |-> h + H(stop_line_offset)]
          [] lane = "W" ->
               base @@ [x |-> H(-50), y |-> h + gap, stop |-> w - H(stop_line_offset)]
          [] lane = "E" ->
               base @@ [x |-> H(w + 50), y |-> h - gap, stop |-> w + H(stop_line_offset)]

\* the heading (dx, dy) set by Car.__init__
Heading(lane) ==
    CASE lane = "N" -> <<0, 1>>
      [] lane = "S" -> <<0, -1>>
      [] lane = "W" -> <<1, 0>>
      [] lane = "E" -> <<-1, 0>>

\* Car.update_canvas_size(new_width, new_height)
update_canvas_size(car, new_width, new_height) ==
    LET old_cx == car.cx
        old_cy == car.cy
        c == [car EXCEPT !.cx = new_width, !.cy = new_height]
    IN  CASE car.lane = "N" ->
               [c EXCEPT !.stop = c.cy - H(stop_line_offset), !.x = car.x - old_cx + c.cx]
          [] car.lane = "S" ->
               [c EXCEPT !.stop = c.cy + H(stop_line_offset), !.x = car.x - old_cx + c.cx]
          [] car.lane = "W" ->
               [c EXCEPT !.stop = c.cx - H(stop_line_offset), !.y = car.y - old_cy + c.cy]
          [] car.lane = "E" ->
               [c EXCEPT !.stop = c.cx + H(stop_line_offset), !.y = car.y - old_cy + c.cy]

\* dist_to_stop of Car.update
DistToStop(car) ==
    CASE car.lane = "N" -> car.stop - car.y
      [] car.lane = "S" -> car.y - car.stop
      [] car.lane = "W" -> car.stop - car.x
      [] car.lane = "E" -> car.x - car.stop

\* the square of dist_to_car (sqrt(v) < r is v < r * r)
DistSq(a, b) == (a.x - b.x) * (a.x - b.x) + (a.y - b.y) * (a.y - b.y)

Min(a, b) == IF a < b THEN a ELSE b
Max(a, b) == IF a > b THEN a ELSE b

\* faulty variant of TargetSpeed: only a yellow light stops a car
TargetSpeedNoRed(car, light_color, car_ahead) ==
    LET dist_to_stop == DistToStop(car)
        t1 == IF dist_to_stop > H(-10)
                  /\ light_color = "yellow"
                  /\ dist_to_stop < H(50)
              THEN 0
              ELSE H(max_speed)
    IN  IF car_ahead # <<>> /\ ~car_ahead[1].is_virtual
        THEN LET d2 == DistSq(car, car_ahead[1])
             IN  IF d2 < H(24) * H(24) THEN 0
                 ELSE IF d2 < H(50) * H(50) THEN Min(t1, car_ahead[1].speed)
                 ELSE t1
        ELSE t1

\* faulty variant of TargetSpeed: a car up to 30 past its stop line, inside
\* the central box, still stops for red and yellow
TargetSpeedLateStop(car, light_color, car_ahead) ==
    LET dist_to_stop == DistToStop(car)
        t1 == IF dist_to_stop > H(-30)
                  /\ light_color \in {"red", "yellow"}
                  /\ dist_to_stop < H(50)
              THEN 0
              ELSE H(max_speed)
    IN  IF car_ahead # <<>> /\ ~car_ahead[1].is_virtual
        THEN LET d2 == DistSq(car, car_ahead[1])
             IN  IF d2 < H(24) * H(24) THEN 0
                 ELSE IF d2 < H(50) * H(50) THEN Min(t1, car_ahead[1].speed)
                 ELSE t1
        ELSE t1

\* target_speed of Car.update; car_ahead is <<>> (None) or <<the car ahead>>
TargetSpeed(car, light_color, car_ahead) ==
    LET dist_to_stop == DistToStop(car)
        t1 == IF dist_to_stop > H(-10)
                  /\ light_color \in {"red", "yellow"}
                  /\ dist_to_stop < H(50)
              THEN 0
              ELSE H(max_speed)
    IN  IF car_ahead # <<>> /\ ~car_ahead[1].is_virtual
        THEN LET d2 == DistSq(car, car_ahead[1])
             IN  IF d2 < H(24) * H(24) THEN 0
                 ELSE IF d2 < H(50) * H(50) THEN Min(t1, car_ahead[1].speed)
                 ELSE t1
        ELSE t1

\* faulty variant of NewSpeed: the speed jumps to the target
NewSpeedJump(speed, target_speed) == target_speed

\* the rate-limited speed update of Car.update
NewSpeed(speed, target_speed) ==
    IF speed < target_speed THEN Min(speed + accel, target_speed)
    ELSE IF speed > target_speed THEN Max(speed - H(decel), target_speed)
    ELSE speed

\* faulty variant of Move: a car moving at exactly 0.5 counts as waiting
MoveWaitAtHalf(car, s, d) ==
    [car EXCEPT !.speed = s,
                !.x = car.x + d[1] * s,
                !.y = car.y + d[2] * s,
                !.wait_time = IF s <= 1 THEN car.wait_time + 1 ELSE car.wait_time]

\* "self.x += self.dx * self.speed ..." and the wait counter of Car.update,
\* s being the new speed; 0.5 is one half-unit
Move(car, s, d) ==
    [car EXCEPT !.speed = s,
                !.x = car.x + d[1] * s,
                !.y = car.y + d[2] * s,
                !.wait_time = IF s < 1 THEN car.wait_time + 1 ELSE car.wait_time]

\* Car.update(light_color, car_ahead)
CarUpdate(car, light_color, car_ahead) ==
    IF car.is_virtual THEN car
    ELSE Move(car, NewSpeed(car.speed, TargetSpeed(car, light_color, car_ahead)),
              Heading(car.lane))

(***************************************************************************)
(* src/app.py: UltimateTrafficApp, the simulation state and its tick.      *)
(***************************************************************************)
VARIABLES
    \* --- the application's state (UltimateTrafficApp.__init__) ---
    cars,               \* self.cars, in list order
    virtual_queues,     \* self.virtual_queues
    lights,             \* self.lights
    current_phase_idx,  \* self.current_phase_idx (0-based)
    fsm_state,          \* self.fsm_state
    state_timer,        \* self.state_timer
    current_min_green,  \* self.current_min_green
    current_max_green,  \* self.current_max_green
    canvas_width,       \* self.canvas_width
    canvas_height,      \* self.canvas_height
    dim_update_counter, \* self._dim_update_counter
    exit_timestamps,    \* self.exit_timestamps: every record appended, stamped with its tick
    lane_wait_times,    \* self.lane_wait_times (wait in ticks; seconds = ticks / 60)
    lane_wait_history,  \* self.lane_wait_history
    last_inputs,        \* self.fuzzy_controller._last_inputs
    \* --- the run so far ---
    tick,               \* number of run_simulation calls made
    next_id,            \* identity given to the next Car object
    inputs_left,        \* external inputs (arrivals, surges, resizes) still allowed
    horizon,            \* number of ticks explored
    \* --- what the last tick read and wrote (for stating the properties) ---
    obs,                \* the arguments and results of the last update_fsm call
    phys,               \* the cars handed to the last update_physics, before and after
    counted_ids,        \* ids of the cars whose counted flag has been set
    adm,                \* what the last spawn loop and manage_virtual_queues read and wrote
    \* --- one call of the fuzzy engine on its own ---
    fz,
    \* --- get_los_grade on its own ---
    los

vars == <<cars, virtual_queues, lights, current_phase_idx, fsm_state, state_timer,
          current_min_green, current_max_green, canvas_width, canvas_height,
          dim_update_counter, exit_timestamps, lane_wait_times, lane_wait_history,
          last_inputs, tick, next_id, inputs_left, horizon, obs, phys, counted_ids, adm,
          fz, los>>

\* Bounds of the exploration.
MaxTick == 100
MaxInputs == 2
InputEvery == 45
MaxTickLong == 205
FzMaxQ == 20
LosMaxHalf == 170
FzWaits == {0, 5, 10, 20, 30, 45, 50, 60, 90, 120}

phase_order == <<"N", "S", "E", "W">>
LaneOrder == <<"N", "S", "E", "W">>

\* sizes the canvas widget may report (winfo_width, winfo_height); <<1, 1>> is
\* what an unmapped widget reports
WidgetSizes == {<<700, 800>>, <<700, 600>>, <<1, 1>>}

\* UltimateTrafficApp.can_spawn_freely(lane)
can_spawn_freely(cs, lane, w, h) ==
    \A i \in 1..Len(cs) :
        LET c == cs[i]
            dist == CASE lane = "N" -> Abs(c.y - H(-20))
                      [] lane = "S" -> Abs(c.y - H(h + 20))
                      [] lane = "W" -> Abs(c.x - H(-20))
                      [] lane = "E" -> Abs(c.x - H(w + 20))
        IN  (c.lane = lane /\ ~c.is_virtual) => ~(dist < H(16))

\* UltimateTrafficApp.spawn_car_direct(lane)
spawn_car_direct(cs, id, lane, w, h) == Append(cs, NewCar(id, lane, w, h))

\* UltimateTrafficApp._update_canvas_dimensions with the widget reporting size
\* the result is [w, h, cars]
UpdateCanvasDimensions(cs, cw, ch, size) ==
    IF size[1] > 10 /\ size[2] > 10 /\ (size[1] # cw \/ size[2] # ch)
    THEN [w |-> size[1], h |-> size[2],
          cars |-> [i \in 1..Len(cs) |-> update_canvas_size(cs[i], size[1], size[2])]]
    ELSE [w |-> cw, h |-> ch, cars |-> cs]

\* faulty variant of SpawnDemand: demand that cannot be placed is dropped
SpawnDemandDrop(cs, vq, id, lane, w, h) ==
    IF lane # "none" /\ can_spawn_freely(cs, lane, w, h)
    THEN [cars |-> spawn_car_direct(cs, id, lane, w, h), vq |-> vq, next_id |-> id + 1]
    ELSE [cars |-> cs, vq |-> vq, next_id |-> id]

\* the spawn loop of run_simulation: one unit of demand for `lane` ("none": the
\* spawn credit has not reached 1.0).  The credit grows by at most
\* 200/60 * 0.1 a tick, so the loop body runs at most once in a tick.
\* The result is [cars, vq, next_id].
SpawnDemand(cs, vq, id, lane, w, h) ==
    IF lane = "none" THEN [cars |-> cs, vq |-> vq, next_id |-> id]
    ELSE IF can_spawn_freely(cs, lane, w, h)
    THEN [cars |-> spawn_car_direct(cs, id, lane, w, h), vq |-> vq, next_id |-> id + 1]
    ELSE [cars |-> cs, vq |-> [vq EXCEPT ![lane] = @ + 1], next_id |-> id]

\* the sort keys of update_physics (ascending; list.sort is stable)
SortKey(c) ==
    CASE c.lane = "N" -> -c.y
      [] c.lane = "S" -> c.y
      [] c.lane = "W" -> -c.x
      [] c.lane = "E" -> c.x

RECURSIVE InsertSorted(_, _)
InsertSorted(sorted, c) ==
    IF sorted = <<>> THEN <<c>>
    ELSE IF SortKey(c) < SortKey(Head(sorted)) THEN <<c>> \o sorted
    ELSE <<Head(sorted)>> \o InsertSorted(Tail(sorted), c)

RECURSIVE SortCars(_)
SortCars(cs) ==
    IF cs = <<>> THEN <<>>
    ELSE InsertSorted(SortCars(SubSeq(cs, 1, Len(cs) - 1)), cs[Len(cs)])

\* lane_cars[lane], sorted
LaneCars(cs, lane) == SortCars(SelectSeq(cs, LAMBDA c : c.lane = lane))

\* the `passed` test of update_physics (cx = w / 2 is w half-units)
Passed(car, w, h) ==
    \/ car.lane = "N" /\ car.y > h
    \/ car.lane = "S" /\ car.y < h
    \/ car.lane = "W" /\ car.x > w
    \/ car.lane = "E" /\ car.x < w

\* faulty variant of ShouldCount: the counted flag is not consulted
ShouldCountAgain(car, w, h) == Passed(car, w, h)

\* "if not car.counted: ... if passed:" for a car that Car.update has moved
ShouldCount(car, w, h) == ~car.counted /\ Passed(car, w, h)

\* "car.counted = True"
MarkCounted(car, w, h) ==
    IF ShouldCount(car, w, h) THEN [car EXCEPT !.counted = TRUE] ELSE car

\* the inner loop of update_physics over one lane's sorted cars from index i
\* on: every car is updated against the already updated car before it
RECURSIVE PhysicsFrom(_, _, _, _, _, _)
PhysicsFrom(sorted, i, done, light, w, h) ==
    IF i > Len(sorted) THEN done
    ELSE PhysicsFrom(sorted, i + 1,
             Append(done,
                    MarkCounted(CarUpdate(sorted[i], light,
                                          IF i > 1 THEN <<done[i - 1]>> ELSE <<>>),
                                w, h)),
             light, w, h)

PhysicsLane(sorted, light, w, h) == PhysicsFrom(sorted, 1, <<>>, light, w, h)

\* "Keep car alive until it leaves canvas"
InCanvas(car, w, h) ==
    /\ H(-100) < car.x /\ car.x < H(w + 100)
    /\ H(-100) < car.y /\ car.y < H(h + 100)

\* the cars of self.cars in the order update_physics processes them: lane by
\* lane (N, S, E, W), each lane sorted
ProcessingOrder(cs) ==
    LaneCars(cs, "N") \o LaneCars(cs, "S") \o LaneCars(cs, "E") \o LaneCars(cs, "W")

OfLane(cs, lane) == SelectSeq(cs, LAMBDA c : c.lane = lane)

\* the update loop of update_physics over the cars in processing order
UpdateAll(before, lts, w, h) ==
    PhysicsLane(OfLane(before, "N"), lts["N"], w, h)
    \o PhysicsLane(OfLane(before, "S"), lts["S"], w, h)
    \o PhysicsLane(OfLane(before, "E"), lts["E"], w, h)
    \o PhysicsLane(OfLane(before, "W"), lts["W"], w, h)

\* the new self.cars: the updated cars that are still near the canvas
Alive(after, w, h) == SelectSeq(after, LAMBDA c : InCanvas(c, w, h))

\* faulty variant of manage_virtual_queues: a placement leaves the counter as
\* it was
RECURSIVE manage_virtual_queues_keep(_, _, _, _, _, _)
manage_virtual_queues_keep(cs, vq, id, i, w, h) ==
    IF i > Len(LaneOrder) THEN [cars |-> cs, vq |-> vq, next_id |-> id]
    ELSE IF vq[LaneOrder[i]] > 0 /\ can_spawn_freely(cs, LaneOrder[i], w, h)
    THEN manage_virtual_queues_keep(spawn_car_direct(cs, id, LaneOrder[i], w, h),
                                    vq, id + 1, i + 1, w, h)
    ELSE manage_virtual_queues_keep(cs, vq, id, i + 1, w, h)

\* UltimateTrafficApp.manage_virtual_queues over the lanes from index i on;
\* the result is [cars, vq, next_id]
RECURSIVE manage_virtual_queues(_, _, _, _, _, _)
manage_virtual_queues(cs, vq, id, i, w, h) ==
    IF i > Len(LaneOrder) THEN [cars |-> cs, vq |-> vq, next_id |-> id]
    ELSE LET lane == LaneOrder[i]
         IN  IF vq[lane] > 0 /\ can_spawn_freely(cs, lane, w, h)
             THEN manage_virtual_queues(spawn_car_direct(cs, id, lane, w, h),
                                        [vq EXCEPT ![lane] = @ - 1], id + 1, i + 1, w, h)
             ELSE manage_virtual_queues(cs, vq, id, i + 1, w, h)

\* faulty variant of QueueStates: the virtual counters are left out
QueueStatesNoVirtual(cs, vq) ==
    [lane \in Lanes |->
        Cardinality({i \in 1..Len(cs) : ~cs[i].is_virtual /\ cs[i].lane = lane})]

\* "Calculate queue states" of run_simulation
QueueStates(cs, vq) ==
    [lane \in Lanes |->
        Cardinality({i \in 1..Len(cs) : ~cs[i].is_virtual /\ cs[i].lane = lane}) + vq[lane]]

MaxOver(S) == IF S = {} THEN 0
              ELSE LET v == CHOOSE v \in S : \A u \in S : u <= v IN v

\* max_wait_ticks of run_simulation, in ticks (the source divides by 60.0)
MaxWaitTicks(cs) == MaxOver({cs[i].wait_time : i \in {j \in 1..Len(cs) : ~cs[j].is_virtual}})

\* faulty variant of MinGreen: the large-queue formula is used for every queue
MinGreenUntiered(active_load) == Min(120, 40 + active_load * 8)

\* "Adaptive timers" of update_fsm
MinGreen(active_load) ==
    IF active_load <= 2 THEN 30
    ELSE IF active_load <= 5 THEN 50
    ELSE Min(120, 40 + active_load * 8)

MaxGreen(active_load) == Min(300, 100 + active_load * 15)

switch_threshold == 35
yellow_ticks == 45
all_red_ticks == 15
idle_ticks == 20

\* faulty variant of ShouldSwitch: the fuzzy score is not consulted
ShouldSwitchNoScore(timer, min_green, max_green, score, active_load, max_waiting) ==
    \/ timer > max_green
    \/ active_load = 0 /\ max_waiting > 0 /\ timer > idle_ticks

\* faulty variant of ShouldSwitch: no max-green cap
ShouldSwitchNoCap(timer, min_green, max_green, score, active_load, max_waiting) ==
    \/ timer > min_green /\ RLt(score, RInt(switch_threshold))
    \/ active_load = 0 /\ max_waiting > 0 /\ timer > idle_ticks

\* faulty variant of ShouldSwitch: no guard for an idle active approach
ShouldSwitchNoIdle(timer, min_green, max_green, score, active_load, max_waiting) ==
    \/ timer > min_green /\ RLt(score, RInt(switch_threshold))
    \/ timer > max_green

\* should_switch of update_fsm (state GREEN)
ShouldSwitch(timer, min_green, max_green, score, active_load, max_waiting) ==
    \/ timer > min_green /\ RLt(score, RInt(switch_threshold))
    \/ timer > max_green
    \/ active_load = 0 /\ max_waiting > 0 /\ timer > idle_ticks

\* `occupied` of update_fsm (state ALL_RED): a car inside the central box
Occupied(cs, w, h) ==
    \E i \in 1..Len(cs) :
        /\ w - H(100) < cs[i].x /\ cs[i].x < w + H(100)
        /\ h - H(100) < cs[i].y /\ cs[i].y < h + H(100)

\* faulty variant of SetLight: a light is never set back to red
SetLightNoRed(lts, lane, color) ==
    IF color = "red" THEN lts ELSE [lts EXCEPT ![lane] = color]

\* self.lights[lane] = color
SetLight(lts, lane, color) == [lts EXCEPT ![lane] = color]

\* faulty variant of LeaveYellow: YELLOW is left one tick early
LeaveYellowEarly(timer) == timer >= yellow_ticks

\* "if self.state_timer > 45"
LeaveYellow(timer) == timer > yellow_ticks

\* faulty variant of LeaveAllRed: the clearance check is skipped
LeaveAllRedOnTimer(timer, occupied) == timer > all_red_ticks

\* "if not occupied and self.state_timer > 15"
LeaveAllRed(timer, occupied) == ~occupied /\ timer > all_red_ticks

\* faulty variant of NextPhase: an approach is skipped
NextPhaseSkip(idx) == (idx + 2) % 4

\* faulty variant of NextPhase: the active approach does not advance
NextPhaseStay(idx) == idx

\* (self.current_phase_idx + 1) % 4
NextPhase(idx) == (idx + 1) % 4

\* "FSM transitions" of update_fsm: timer is the incremented state_timer; the
\* result is [fsm_state, state_timer, current_phase_idx, lights]
FsmTransition(state, timer, idx, lts, should_switch, occupied) ==
    CASE state = "GREEN" ->
           IF should_switch
           THEN [fsm_state |-> "YELLOW", state_timer |-> 0, current_phase_idx |-> idx,
                 lights |-> SetLight(SetLight(lts, phase_order[idx + 1], "green"),
                                     phase_order[idx + 1], "yellow")]
           ELSE [fsm_state |-> "GREEN", state_timer |-> timer, current_phase_idx |-> idx,
                 lights |-> SetLight(lts, phase_order[idx + 1], "green")]
      [] state = "YELLOW" ->
           IF LeaveYellow(timer)
           THEN [fsm_state |-> "ALL_RED", state_timer |-> 0, current_phase_idx |-> idx,
                 lights |-> SetLight(lts, phase_order[idx + 1], "red")]
           ELSE [fsm_state |-> "YELLOW", state_timer |-> timer,
                 current_phase_idx |-> idx, lights |-> lts]
      [] state = "ALL_RED" ->
           IF LeaveAllRed(timer, occupied)
           THEN [fsm_state |-> "GREEN", state_timer |-> 0,
                 current_phase_idx |-> NextPhase(idx), lights |-> lts]
           ELSE [fsm_state |-> "ALL_RED", state_timer |-> timer,
                 current_phase_idx |-> idx, lights |-> lts]

\* max(queues[l] for l in queues if l != active_lane)
MaxWaiting(queues, active_lane) == MaxOver({queues[l] : l \in Lanes \ {active_lane}})

\* FuzzyVisualizer.draw_rules_expanded(cv, rules, flow_ratio, mu_f): its first
\* statement unpacks rules into six names, which raises ValueError for a tuple
\* of any other length
draw_rules_expanded(rules) == IF Len(rules) = 6 THEN "drawn" ELSE "ValueError"

\* FuzzyVisualizer.draw_output_expanded(cv, score, rules, threshold): its first
\* statement unpacks rules into ten names
draw_output_expanded(rules) == IF Len(rules) = 10 THEN "drawn" ELSE "ValueError"

\* the end of update_fsm and of run_simulation: the two drawings of the rules,
\* then calculate_flow_metrics, draw and "self.after(16, self.run_simulation)";
\* an exception in a drawing leaves run_simulation before the timer is re-armed
Rescheduled(rules) ==
    draw_rules_expanded(rules) = "drawn" /\ draw_output_expanded(rules) = "drawn"

\* update_fsm once the fuzzy engine has answered: timer is the incremented
\* state_timer, res the result of calculate
FsmStep(state, timer, idx, lts, active_load, max_waiting, max_wait_ticks, queues, occupied, res) ==
    [tr |-> FsmTransition(state, timer, idx, lts,
                          ShouldSwitch(timer, MinGreen(active_load), MaxGreen(active_load),
                                       res.score, active_load, max_waiting),
                          occupied),
     min_green |-> MinGreen(active_load),
     max_green |-> MaxGreen(active_load),
     last_inputs |-> res.last_inputs,
     obs |-> [start_state |-> state, start_idx |-> idx, start_lights |-> lts,
              timer |-> timer, active_lane |-> phase_order[idx + 1],
              active_load |-> active_load, max_waiting |-> max_waiting,
              queues |-> queues, max_wait_ticks |-> max_wait_ticks,
              score |-> res.score, occupied |-> occupied,
              rescheduled |-> Rescheduled(res.rules)]]

\* UltimateTrafficApp.update_fsm(queues, max_wait_time_sec, flow_ratio) on the
\* cars cs; max_wait_ticks / 60 is max_wait_time_sec
update_fsm(cs, w, h, state, timer0, idx, lts, queues, max_wait_ticks, flow_ratio) ==
    FsmStep(state, timer0 + 1, idx, lts,
            queues[phase_order[idx + 1]],
            MaxWaiting(queues, phase_order[idx + 1]),
            max_wait_ticks, queues,
            Occupied(cs, w, h),
            calculate(queues[phase_order[idx + 1]],
                      MaxWaiting(queues, phase_order[idx + 1]),
                      Rat(max_wait_ticks, 60), flow_ratio))

\* deque(maxlen = n).append(v)
AppendMax(q, v, n) == IF Len(q) >= n THEN Append(Tail(q), v) ELSE Append(q, v)

wait_window == 50

\* the records update_physics appends while it walks the cars in processing
\* order: one exit record and one wait sample each time the counting block is
\* entered (the car as Car.update left it is after[i] with the flag it had
\* before); acc is [ts, lwt, lwh, ids]
RECURSIVE RecordExits(_, _, _, _, _, _, _)
RecordExits(before, after, i, now, w, h, acc) ==
    IF i > Len(after) THEN acc
    ELSE IF ShouldCount([after[i] EXCEPT !.counted = before[i].counted], w, h)
    THEN RecordExits(before, after, i + 1, now, w, h,
             [ts  |-> Append(acc.ts, now),
              lwt |-> [acc.lwt EXCEPT ![after[i].lane] =
                           AppendMax(@, after[i].wait_time, wait_window)],
              lwh |-> [acc.lwh EXCEPT ![after[i].lane] =
                           Append(@, <<now, after[i].wait_time>>)],
              ids |-> acc.ids \cup {after[i].id}])
    ELSE RecordExits(before, after, i + 1, now, w, h, acc)

dim_period == 30
SURGE == 15

\* An arrival may be drawn on the ticks that follow a multiple of InputEvery.
InputSlot == tick % InputEvery = 0

\* UltimateTrafficApp.run_simulation: one tick, from its first line to the FSM
\* transitions of update_fsm (app.py 507-556 and 566-621).  What follows them
\* (the fuzzy-engine drawings in update_fsm, calculate_flow_metrics, draw, the
\* re-arming of the timer) writes none of the variables below; the model lets
\* the tick be run again whenever the frame timer would.
\* arrival is the lane the spawn loop draws ("none": no demand this tick), size
\* is what the canvas widget reports when its size is read (every
\* dim_period-th tick).  The steps are bound in the order the source takes
\* them: dim (canvas dimensions), sp (spawn loop), before/after
\* (update_physics), mv (manage_virtual_queues), queues, f (update_fsm), ex
\* (the exit records update_physics appended).
Tick(arrival, size) ==
    /\ tick < horizon
    /\ arrival # "none" => InputSlot
    /\ (dim_update_counter + 1 < dim_period) => size = <<canvas_width, canvas_height>>
    /\ \E dim \in {IF dim_update_counter + 1 >= dim_period
                   THEN UpdateCanvasDimensions(cars, canvas_width, canvas_height, size)
                   ELSE [w |-> canvas_width, h |-> canvas_height, cars |-> cars]} :
       \E cost \in {(IF arrival = "none" THEN 0 ELSE 1)
                    + (IF dim.w # canvas_width \/ dim.h # canvas_height THEN 1 ELSE 0)} :
         /\ cost <= inputs_left
         /\ inputs_left' = inputs_left - cost
         /\ canvas_width' = dim.w
         /\ canvas_height' = dim.h
         /\ \E sp \in {SpawnDemand(dim.cars, virtual_queues, next_id, arrival, dim.w, dim.h)} :
            \E before \in {ProcessingOrder(sp.cars)} :
            \E after \in {UpdateAll(before, lights, dim.w, dim.h)} :
            \E mv \in {manage_virtual_queues(Alive(after, dim.w, dim.h), sp.vq,
                                             sp.next_id, 1, dim.w, dim.h)} :
            \E queues \in {QueueStates(mv.cars, mv.vq)} :
            \E f \in {update_fsm(mv.cars, dim.w, dim.h, fsm_state, state_timer,
                                 current_phase_idx, lights, queues,
                                 MaxWaitTicks(mv.cars), RInt(0))} :
            \E ex \in {RecordExits(before, after, 1, tick + 1, dim.w, dim.h,
                                   [ts |-> exit_timestamps, lwt |-> lane_wait_times,
                                    lwh |-> lane_wait_history, ids |-> counted_ids])} :
              /\ cars' = mv.cars
              /\ virtual_queues' = mv.vq
              /\ next_id' = mv.next_id
              /\ exit_timestamps' = ex.ts
              /\ lane_wait_times' = ex.lwt
              /\ lane_wait_history' = ex.lwh
              /\ counted_ids' = ex.ids
              /\ phys' = [start |-> cars, before |-> before, after |-> after,
                          exits_before |-> Len(exit_timestamps)]
              /\ adm' = [arrival |-> arrival,
                         spawn_cars |-> dim.cars, spawn_vq |-> virtual_queues,
                         spawned |-> sp.cars, spawned_vq |-> sp.vq,
                         drain_cars |-> Alive(after, dim.w, dim.h),
                         drained |-> mv.cars, drained_vq |-> mv.vq]
              /\ fsm_state' = f.tr.fsm_state
              /\ state_timer' = f.tr.state_timer
              /\ current_phase_idx' = f.tr.current_phase_idx
              /\ lights' = f.tr.lights
              /\ current_min_green' = f.min_green
              /\ current_max_green' = f.max_green
              /\ last_inputs' = f.last_inputs
              /\ obs' = f.obs
    /\ tick' = tick + 1
    /\ dim_update_counter' = IF dim_update_counter + 1 >= dim_period
                             THEN 0 ELSE dim_update_counter + 1
    /\ UNCHANGED <<fz, los, horizon>>

\* UltimateTrafficApp.surge_traffic, the lane being the random choice
Surge(lane) ==
    /\ tick < horizon
    /\ InputSlot
    /\ inputs_left > 0
    /\ inputs_left' = inputs_left - 1
    /\ virtual_queues' = [virtual_queues EXCEPT ![lane] = @ + SURGE]
    /\ UNCHANGED <<cars, lights, current_phase_idx, fsm_state, state_timer,
                   current_min_green, current_max_green, canvas_width, canvas_height,
                   dim_update_counter, exit_timestamps, lane_wait_times,
                   lane_wait_history, last_inputs, tick, next_id, obs, phys,
                   counted_ids, adm, fz, los, horizon>>

NoObs == [start_state |-> "none", start_idx |-> 0,
          start_lights |-> [l \in Lanes |-> "red"], timer |-> 0, active_lane |-> "N",
          active_load |-> 0, max_waiting |-> 0, queues |-> [l \in Lanes |-> 0],
          max_wait_ticks |-> 0, score |-> RInt(0), occupied |-> FALSE,
          rescheduled |-> TRUE]

NoAdm == [arrival |-> "none", spawn_cars |-> <<>>, spawn_vq |-> [l \in Lanes |-> 0],
          spawned |-> <<>>, spawned_vq |-> [l \in Lanes |-> 0],
          drain_cars |-> <<>>, drained |-> <<>>, drained_vq |-> [l \in Lanes |-> 0]]

NoLos == [called |-> FALSE, args |-> <<0, 0>>, res |-> <<>>]

\* the state UltimateTrafficApp.__init__ builds
InitApp ==
    /\ cars = <<>>
    /\ virtual_queues = [l \in Lanes |-> 0]
    /\ lights = [l \in Lanes |-> "red"]
    /\ current_phase_idx = 0
    /\ fsm_state = "GREEN"
    /\ state_timer = 0
    /\ current_min_green = 50
    /\ current_max_green = 200
    /\ canvas_width = 700
    /\ canvas_height = 800
    /\ dim_update_counter = 0
    /\ exit_timestamps = <<>>
    /\ lane_wait_times = [l \in Lanes |-> <<>>]
    /\ lane_wait_history = [l \in Lanes |-> <<>>]
    /\ last_inputs = [clearance_time |-> RInt(0), imbalance_ratio |-> RInt(0),
                      urgency_index |-> RInt(0)]
    /\ tick = 0
    /\ next_id = 1
    /\ obs = NoObs
    /\ phys = [start |-> <<>>, before |-> <<>>, after |-> <<>>, exits_before |-> 0]
    /\ counted_ids = {}
    /\ adm = NoAdm

Init ==
    /\ InitApp
    /\ inputs_left = MaxInputs
    /\ horizon = MaxTick
    /\ fz = [called |-> FALSE, args |-> <<0, 0, 0, 0>>, res |-> <<>>]
    /\ los = NoLos

\* Any two inputs (arrivals, surges, canvas resizes) within MaxTick ticks.
Next ==
    \/ \E arrival \in Lanes \cup {"none"}, size \in WidgetSizes : Tick(arrival, size)
    \/ \E lane \in Lanes : Surge(lane)

Spec == Init /\ [][Next]_vars

\* Long runs: the inputs all come before the first tick, the canvas keeps its
\* size.
InitLong ==
    /\ InitApp
    /\ inputs_left = MaxInputs
    /\ horizon = MaxTickLong
    /\ fz = [called |-> FALSE, args |-> <<0, 0, 0, 0>>, res |-> <<>>]
    /\ los = NoLos

NextLong ==
    \/ \E arrival \in Lanes \cup {"none"} :
          /\ arrival # "none" => tick = 0
          /\ Tick(arrival, <<canvas_width, canvas_height>>)
    \/ \E lane \in Lanes : tick = 0 /\ Surge(lane)

SpecLong == InitLong /\ [][NextLong]_vars

\* a step that runs one tick of run_simulation
TickRuns == tick < horizon /\ tick' = tick + 1

\* run_simulation re-arms its timer ("self.after(16, self.run_simulation)"),
\* so a tick that can run does run.
SpecLongFair == SpecLong /\ WF_tick(TickRuns)

\* The fuzzy engine on its own: one call of calculate on arguments drawn from
\* a grid (queue lengths, the longest wait in whole seconds, the flow ratio).
InitFuzzy ==
    /\ InitApp
    /\ inputs_left = 0
    /\ horizon = 0
    /\ \E active_q \in 0..FzMaxQ, max_waiting_q \in 0..FzMaxQ,
          max_wait_time \in FzWaits, flow_ratio \in {0, 1} :
          fz = [called |-> FALSE,
                args |-> <<active_q, max_waiting_q, max_wait_time, flow_ratio>>,
                res |-> <<>>]
    /\ los = NoLos

Evaluate ==
    /\ ~fz.called
    /\ fz' = [called |-> TRUE, args |-> fz.args,
              res |-> calculate(fz.args[1], fz.args[2], RInt(fz.args[3]),
                                RInt(fz.args[4]))]
    /\ UNCHANGED <<cars, virtual_queues, lights, current_phase_idx, fsm_state,
                   state_timer, current_min_green, current_max_green, canvas_width,
                   canvas_height, dim_update_counter, exit_timestamps,
                   lane_wait_times, lane_wait_history, last_inputs, tick, next_id,
                   inputs_left, horizon, obs, phys, counted_ids, adm, los>>

NextFuzzy == Evaluate

SpecFuzzy == InitFuzzy /\ [][NextFuzzy]_vars

\* faulty variant of get_los_grade: the bucket bounds are exclusive
get_los_grade_strict(avg_delay) ==
    IF RLt(avg_delay, RInt(10)) THEN <<"A", "Free Flow", "STATUS_GOOD">>
    ELSE IF RLt(avg_delay, RInt(20)) THEN <<"B", "Stable", "STATUS_GOOD">>
    ELSE IF RLt(avg_delay, RInt(35)) THEN <<"C", "Acceptable", "STATUS_WARNING">>
    ELSE IF RLt(avg_delay, RInt(55)) THEN <<"D", "Unstable", "STATUS_WARNING">>
    ELSE IF RLt(avg_delay, RInt(80)) THEN <<"E", "Poor", "STATUS_ERROR">>
    ELSE <<"F", "Failure", "STATUS_ERROR">>

\* UltimateTrafficApp.get_los_grade(avg_delay): (grade, description, colour)
get_los_grade(avg_delay) ==
    IF RLe(avg_delay, RInt(10)) THEN <<"A", "Free Flow", "STATUS_GOOD">>
    ELSE IF RLe(avg_delay, RInt(20)) THEN <<"B", "Stable", "STATUS_GOOD">>
    ELSE IF RLe(avg_delay, RInt(35)) THEN <<"C", "Acceptable", "STATUS_WARNING">>
    ELSE IF RLe(avg_delay, RInt(55)) THEN <<"D", "Unstable", "STATUS_WARNING">>
    ELSE IF RLe(avg_delay, RInt(80)) THEN <<"E", "Poor", "STATUS_ERROR">>
    ELSE <<"F", "Failure", "STATUS_ERROR">>

\* The Level-of-Service grading on its own: update_lane_stats grades the mean
\* wait of each lane; two mean waits are drawn from a grid of half seconds.
InitLos ==
    /\ InitApp
    /\ inputs_left = 0
    /\ horizon = 0
    /\ fz = [called |-> FALSE, args |-> <<0, 0, 0, 0>>, res |-> <<>>]
    /\ \E a \in 0..LosMaxHalf, b \in 0..LosMaxHalf :
          los = [called |-> FALSE, args |-> <<a, b>>, res |-> <<>>]

Grade ==
    /\ ~los.called
    /\ los' = [called |-> TRUE, args |-> los.args,
               res |-> <<get_los_grade(Rat(los.args[1], 2)),
                         get_los_grade(Rat(los.args[2], 2))>>]
    /\ UNCHANGED <<cars, virtual_queues, lights, current_phase_idx, fsm_state,
                   state_timer, current_min_green, current_max_green, canvas_width,
                   canvas_height, dim_update_counter, exit_timestamps,
                   lane_wait_times, lane_wait_history, last_inputs, tick, next_id,
                   inputs_left, horizon, obs, phys, counted_ids, adm, fz>>

NextLos == Grade

SpecLos == InitLos /\ [][NextLos]_vars

\* The signal controller on its own, run without end: update_fsm is called
\* once a tick with the queue counts and the longest wait of that tick.  The
\* vehicles are not carried here: the counts are drawn per approach from
\* FsmQueues, the wait from FsmWaits, and the box test of ALL_RED is an input
\* that may hold for at most MaxBoxTicks ticks after the clearance time (a
\* vehicle in the box moves forward in every tick, see C27).
FsmQueue == 6
FsmWait == 3600
MaxBoxTicks == 3
FsmQueues == {0, FsmQueue}
FsmWaits == {0, FsmWait}

InitFsm ==
    /\ InitApp
    /\ inputs_left = 0
    /\ horizon = 0
    /\ fz = [called |-> FALSE, args |-> <<0, 0, 0, 0>>, res |-> <<>>]
    /\ los = NoLos

\* UltimateTrafficApp.update_fsm(queues, max_wait_time_sec, flow_ratio), from
\* its first line to the FSM transitions
UpdateFsm(queues, max_wait_ticks, occupied) ==
    /\ occupied => (fsm_state = "ALL_RED" /\ state_timer < all_red_ticks + MaxBoxTicks)
    /\ \E f \in {FsmStep(fsm_state, state_timer + 1, current_phase_idx, lights,
                         queues[phase_order[current_phase_idx + 1]],
                         MaxWaiting(queues, phase_order[current_phase_idx + 1]),
                         max_wait_ticks, queues, occupied,
                         calculate(queues[phase_order[current_phase_idx + 1]],
                                   MaxWaiting(queues, phase_order[current_phase_idx + 1]),
                                   Rat(max_wait_ticks, 60), RInt(0)))} :
          /\ fsm_state' = f.tr.fsm_state
          /\ state_timer' = f.tr.state_timer
          /\ current_phase_idx' = f.tr.current_phase_idx
          /\ lights' = f.tr.lights
          /\ current_min_green' = f.min_green
          /\ current_max_green' = f.max_green
          /\ last_inputs' = f.last_inputs
    /\ UNCHANGED <<cars, virtual_queues, canvas_width, canvas_height,
                   dim_update_counter, exit_timestamps, lane_wait_times,
                   lane_wait_history, tick, next_id, inputs_left, horizon, obs, phys,
                   counted_ids, adm, fz, los>>

NextFsm ==
    \E queues \in [Lanes -> FsmQueues], max_wait_ticks \in FsmWaits, occupied \in BOOLEAN :
        UpdateFsm(queues, max_wait_ticks, occupied)

\* a step in which update_fsm has run: the state timer is one more, or back
\* at 0 from a value above 0
FsmRuns == state_timer' = state_timer + 1 \/ state_timer' = 0

\* run_simulation re-arms its timer, so update_fsm is called again and again
SpecFsm == InitFsm /\ [][NextFsm]_vars /\ WF_state_timer(FsmRuns)

(***************************************************************************)
(* Properties.  obs and phys hold what the last tick read and wrote, so a   *)
(* property of "a tick" is a predicate on the state the tick ends in.       *)
(***************************************************************************)
Ticked == tick > 0
NonRed == {l \in Lanes : lights[l] # "red"}

\* C1: after every tick at most one of the four approaches shows green or
\* yellow, and every other approach shows red.
C1_OneApproachOpen ==
    /\ Cardinality(NonRed) <= 1
    /\ \A l \in Lanes : lights[l] \in {"red", "yellow", "green"}
    /\ \A l \in NonRed : l = phase_order[current_phase_idx + 1]

\* the second approach of the cycle has been given green, the first is red again
C1_Witness ==
    /\ Ticked
    /\ lights["S"] = "green"
    /\ \A l \in Lanes \ {"S"} : lights[l] = "red"

\* C2: a tick that starts in GREEN with the incremented timer above the
\* min-green bound of that tick and a score below 35 ends in YELLOW with the
\* timer at 0 and the active approach's light yellow.
C2_LowScoreSwitches ==
    (/\ Ticked
     /\ obs.start_state = "GREEN"
     /\ obs.timer > current_min_green
     /\ RLt(obs.score, RInt(35)))
    => (/\ fsm_state = "YELLOW"
        /\ state_timer = 0
        /\ lights[obs.active_lane] = "yellow")

\* the switch was caused by the score alone: max-green not reached, and the
\* active approach is not idle while others wait
C2_Witness ==
    /\ Ticked
    /\ obs.start_state = "GREEN"
    /\ obs.timer > current_min_green
    /\ RLt(obs.score, RInt(35))
    /\ obs.timer <= current_max_green
    /\ ~(obs.active_load = 0 /\ obs.max_waiting > 0)
    /\ fsm_state = "YELLOW"

\* C3: a tick in GREEN whose timer exceeds the max-green bound of that tick
\* switches to YELLOW whatever the score, so at the end of every tick spent in
\* GREEN the timer is at most max-green, which is at most 300.
C3_MaxGreenCap ==
    /\ (Ticked /\ obs.start_state = "GREEN" /\ obs.timer > current_max_green)
           => (fsm_state = "YELLOW" /\ state_timer = 0)
    /\ fsm_state = "GREEN" => (state_timer <= current_max_green /\ state_timer <= 300)
    /\ current_max_green <= 300

\* max-green ended a phase that the score (35 or more) would have kept, on an
\* approach that still had vehicles
C3_Witness ==
    /\ Ticked
    /\ obs.start_state = "GREEN"
    /\ obs.timer > current_max_green
    /\ ~RLt(obs.score, RInt(35))
    /\ obs.active_load > 0
    /\ fsm_state = "YELLOW"

\* a live vehicle is strictly inside the 200 x 200 box around the centre
BoxOccupied ==
    \E i \in 1..Len(cars) :
        /\ Abs(cars[i].x - canvas_width) < H(100)
        /\ Abs(cars[i].y - canvas_height) < H(100)

\* C4: a tick that starts in ALL_RED moves to GREEN iff no live vehicle is in
\* the central box and the timer is above 15; otherwise it leaves the FSM
\* state, the phase index and all the lights as they were.
C4_AllRedExit ==
    (Ticked /\ obs.start_state = "ALL_RED")
    => /\ fsm_state = "GREEN" <=> (~BoxOccupied /\ obs.timer > 15)
       /\ fsm_state # "GREEN" =>
             /\ fsm_state = "ALL_RED"
             /\ current_phase_idx = obs.start_idx
             /\ lights = obs.start_lights

\* the clearance time is over and a vehicle in the box holds the FSM in ALL_RED
C4_Witness ==
    /\ Ticked
    /\ obs.start_state = "ALL_RED"
    /\ obs.timer > 15
    /\ BoxOccupied
    /\ fsm_state = "ALL_RED"

\* C5: the phase index changes only in the tick that leaves ALL_RED for GREEN,
\* and then by exactly one step of the cycle N, S, E, W, N.
C5_PhaseAdvance ==
    /\ current_phase_idx \in 0..3
    /\ current_phase_idx # obs.start_idx
           => /\ obs.start_state = "ALL_RED"
              /\ fsm_state = "GREEN"
    /\ (Ticked /\ obs.start_state = "ALL_RED" /\ fsm_state = "GREEN")
           => current_phase_idx = (obs.start_idx + 1) % 4

\* the first phase change: from N to S
C5_Witness ==
    /\ Ticked
    /\ obs.start_state = "ALL_RED"
    /\ fsm_state = "GREEN"
    /\ obs.start_idx = 0
    /\ current_phase_idx = 1

\* the cars update_physics processed in the last tick, by position in
\* processing order
Processed == 1..Len(phys.after)

\* C6: for every vehicle and every tick the speed after the tick lies in
\* [max(0, prev - decel), min(max_speed, prev + accel)], so it stays in
\* [0, max_speed] and never jumps (speeds in half-units: accel 0.5 is 1,
\* decel 1.0 is 2, max_speed 8 is 16).
C6_SpeedRateLimited ==
    /\ \A i \in Processed :
          /\ phys.after[i].speed >= Max(0, phys.before[i].speed - 2)
          /\ phys.after[i].speed <= Min(16, phys.before[i].speed + 1)
    /\ \A i \in 1..Len(cars) : cars[i].speed >= 0 /\ cars[i].speed <= 16

\* a vehicle at full speed brakes (for a red or yellow light, or a vehicle
\* ahead) and loses exactly the deceleration limit
C6_Witness ==
    \E i \in Processed :
        /\ phys.before[i].speed = 16
        /\ phys.after[i].speed = 14

\* C7: a vehicle's wait counter grows by exactly 1 in a tick that leaves its
\* speed below 0.5 and is unchanged by a tick that does not; nothing else (the
\* canvas update, sorting, counting, the end-of-tick bookkeeping) changes it,
\* and a new vehicle starts at 0.
C7_WaitCounter ==
    /\ \A i \in Processed :
          phys.after[i].wait_time =
              phys.before[i].wait_time + (IF phys.after[i].speed < 1 THEN 1 ELSE 0)
    /\ \A i \in Processed : \A j \in 1..Len(phys.start) :
          phys.start[j].id = phys.before[i].id
              => phys.before[i].wait_time = phys.start[j].wait_time
    /\ \A k \in 1..Len(cars) :
          \/ \E i \in Processed :
                phys.after[i].id = cars[k].id /\ phys.after[i].wait_time = cars[k].wait_time
          \/ /\ \A i \in Processed : phys.after[i].id # cars[k].id
             /\ cars[k].wait_time = 0

\* a vehicle that has waited moves off at exactly 0.5 and its counter stays
C7_Witness ==
    \E i \in Processed :
        /\ phys.before[i].wait_time > 0
        /\ phys.after[i].speed = 1
        /\ phys.after[i].wait_time = phys.before[i].wait_time

\* the number of elements of a sequence of sequences
SamplesIn(f) == Len(f["N"]) + Len(f["S"]) + Len(f["E"]) + Len(f["W"])

\* C8: the counted flag of a vehicle is set in the first tick at whose end the
\* vehicle is beyond the centre, is never cleared, and each setting appends
\* exactly one exit record and one wait sample, so the exit records number the
\* vehicles counted.
C8_CountedOnce ==
    /\ \A i \in Processed :
          /\ phys.before[i].counted => phys.after[i].counted
          /\ ~phys.before[i].counted =>
                (phys.after[i].counted
                    <=> Passed(phys.after[i], canvas_width, canvas_height))
    /\ \A k \in 1..Len(cars) :
          /\ cars[k].counted => cars[k].id \in counted_ids
          /\ ~cars[k].counted =>
                (cars[k].id \notin counted_ids
                 /\ ~Passed(cars[k], canvas_width, canvas_height))
    /\ Len(exit_timestamps) - phys.exits_before =
          Cardinality({i \in Processed : ~phys.before[i].counted /\ phys.after[i].counted})
    /\ Len(exit_timestamps) = Cardinality(counted_ids)
    /\ SamplesIn(lane_wait_history) = Len(exit_timestamps)
    /\ SamplesIn(lane_wait_times) = Len(exit_timestamps)

\* a vehicle counted in an earlier tick is beyond the centre again at the end
\* of this tick, and there is still one exit record for it
C8_Witness ==
    /\ Len(exit_timestamps) = 1
    /\ \E i \in Processed :
          /\ phys.before[i].counted
          /\ Passed(phys.after[i], canvas_width, canvas_height)

\* C9: the score calculate returns lies in [0, 100].
C9_ScoreInRange ==
    fz.called => (RLe(RInt(0), fz.res.score) /\ RLe(fz.res.score, RInt(100)))

\* the adjustments take the score beyond 100 and the clamp returns 100
C9_Witness ==
    /\ fz.called
    /\ fz.res.score = RInt(100)
    /\ RLt(RInt(100),
           Adjusted(fz.args[1], fz.args[2], fz.res.last_inputs.urgency_index,
                    EvalRules(Fuzzify(fz.res.last_inputs.clearance_time,
                                      fz.res.last_inputs.imbalance_ratio,
                                      fz.res.last_inputs.urgency_index),
                              fz.args[1])))

\* C10: with an active queue of at most 1 and another queue above 2 the score
\* is below the switch threshold 35, whatever the wait and the flow ratio.
C10_EmptyFavoursSwitch ==
    (fz.called /\ fz.args[1] <= 1 /\ fz.args[2] > 2) => RLt(fz.res.score, RInt(35))

\* the scenario active_queue = 0, max_other_queue = 5, max_wait = 50,
\* flow_ratio = 1.0
C10_Witness ==
    /\ fz.called
    /\ fz.args = <<0, 5, 50, 1>>
    /\ RLt(fz.res.score, RInt(35))

\* C11: for active_queue = 20, max_other_queue = 2, max_wait = 5 seconds and
\* flow_ratio = 1.0 the score is above 65, the Long-clearance keep rule
\* (r1_clearing, the first of the returned rule strengths) is active and the
\* batch bonus is positive.
C11_LongQueueKeeps ==
    (fz.called /\ fz.args = <<20, 2, 5, 1>>) =>
        /\ RLt(RInt(65), fz.res.score)
        /\ RLt(RInt(0), fz.res.rules[1])
        /\ RLt(RInt(0), BatchBonus(fz.args[1], fz.res.last_inputs.urgency_index))

\* the scenario has been evaluated: r1_clearing is 1.8, the largest keep rule,
\* and the score is 100
C11_Witness ==
    /\ fz.called
    /\ fz.args = <<20, 2, 5, 1>>
    /\ fz.res.rules[1] = Dec(18)
    /\ fz.res.rules[10] = Dec(18)
    /\ fz.res.score = RInt(100)

\* C12: after every tick the adaptive bounds are functions of the total queue
\* q of the approach that was active in the tick: min-green is 30 for q <= 2,
\* non-decreasing in q (each step from q to q + 1, q up to 40), at most 120,
\* and min(120, 40 + 8q) for large q (96 for q = 7); max-green is
\* min(300, 100 + 15q) (205 for q = 7).
C12_AdaptiveBounds ==
    /\ Ticked =>
          /\ obs.active_load = obs.queues[obs.active_lane]
          /\ obs.active_load <= 2 => current_min_green = 30
          /\ (obs.active_load > 2 /\ obs.active_load <= 5)
                => (current_min_green >= 30 /\ current_min_green <= Min(120, 40 + 8 * 6))
          /\ obs.active_load > 5 => current_min_green = Min(120, 40 + 8 * obs.active_load)
          /\ obs.active_load = 7 => (current_min_green = 96 /\ current_max_green = 205)
          /\ current_min_green <= 120
          /\ current_max_green = Min(300, 100 + 15 * obs.active_load)
    /\ \A q \in 0..40 : MinGreen(q) <= MinGreen(q + 1)

\* a tick with 7 vehicles queued on the active approach
C12_Witness ==
    /\ Ticked
    /\ obs.active_load = 7
    /\ current_min_green = 96
    /\ current_max_green = 205

\* C13: the grade is fixed by the mean wait with inclusive upper bounds (10 A,
\* 20 B, 35 C, 55 D, 80 E, above F; the waits are counted in half seconds), 22
\* seconds is C, Acceptable, and a longer mean wait never has a better grade.
C13_LosBuckets ==
    los.called =>
        /\ \A k \in 1..2 :
           \A b \in {<<-1, 20, "A">>, <<20, 40, "B">>, <<40, 70, "C">>,
                     <<70, 110, "D">>, <<110, 160, "E">>, <<160, 2 * LosMaxHalf, "F">>} :
              (b[1] < los.args[k] /\ los.args[k] <= b[2]) => los.res[k][1] = b[3]
        /\ \A k \in 1..2 :
              los.args[k] = 44 => (los.res[k][1] = "C" /\ los.res[k][2] = "Acceptable")
        /\ los.args[1] <= los.args[2] =>
              \E i \in 1..6 : \E j \in i..6 :
                  /\ <<"A", "B", "C", "D", "E", "F">>[i] = los.res[1][1]
                  /\ <<"A", "B", "C", "D", "E", "F">>[j] = los.res[2][1]

\* 22 seconds and the inclusive bound 35 seconds are both graded C
C13_Witness ==
    /\ los.called
    /\ los.args = <<44, 70>>
    /\ los.res[1] = <<"C", "Acceptable", "STATUS_WARNING">>
    /\ los.res[2][1] = "C"

\* C14: in every tick, for every approach, the total queue handed to update_fsm
\* and to draw is the number of live non-virtual vehicles of the approach plus
\* its virtual counter, both as the tick leaves them.
C14_QueueRoundTrip ==
    [][tick' = tick + 1 =>
          \A l \in Lanes :
              obs'.queues[l] =
                  Cardinality({i \in 1..Len(cars') : ~cars'[i].is_virtual /\ cars'[i].lane = l})
                  + virtual_queues'[l]]_vars

\* an approach with vehicles on the road and deferred demand at once
C14_Witness ==
    /\ Ticked
    /\ \E l \in Lanes :
          /\ virtual_queues[l] > 0
          /\ \E i \in 1..Len(cars) : cars[i].lane = l /\ ~cars[i].is_virtual
          /\ obs.queues[l] =
                 Cardinality({i \in 1..Len(cars) : ~cars[i].is_virtual /\ cars[i].lane = l})
                 + virtual_queues[l]

\* C15: every tick runs to completion, the publishing of the fuzzy diagnostics
\* included, and schedules the next tick.
C15_EveryTickCompletes == Ticked => obs.rescheduled

\* some non-virtual vehicle of the lane is within the minimum spacing (16) of
\* the lane's entry point (20 outside the canvas edge)
NearEntry(cs, lane) ==
    \E i \in 1..Len(cs) :
        /\ cs[i].lane = lane
        /\ ~cs[i].is_virtual
        /\ \/ lane = "N" /\ Abs(cs[i].y + H(20)) < H(16)
           \/ lane = "S" /\ Abs(cs[i].y - H(canvas_height + 20)) < H(16)
           \/ lane = "W" /\ Abs(cs[i].x + H(20)) < H(16)
           \/ lane = "E" /\ Abs(cs[i].x - H(canvas_width + 20)) < H(16)

\* C16: a unit of arriving demand either places one new vehicle of its approach
\* on the road, which happens only when no non-virtual vehicle of the approach
\* is within the minimum spacing of the entry point, or adds 1 to the
\* approach's virtual counter and places nothing; without demand nothing is
\* placed or deferred.
C16_AdmitOrDefer ==
    /\ adm.arrival = "none" =>
          (adm.spawned = adm.spawn_cars /\ adm.spawned_vq = adm.spawn_vq)
    /\ adm.arrival # "none" =>
          \/ /\ ~NearEntry(adm.spawn_cars, adm.arrival)
             /\ Len(adm.spawned) = Len(adm.spawn_cars) + 1
             /\ SubSeq(adm.spawned, 1, Len(adm.spawn_cars)) = adm.spawn_cars
             /\ adm.spawned[Len(adm.spawned)].lane = adm.arrival
             /\ ~adm.spawned[Len(adm.spawned)].is_virtual
             /\ adm.spawned_vq = adm.spawn_vq
          \/ /\ NearEntry(adm.spawn_cars, adm.arrival)
             /\ adm.spawned = adm.spawn_cars
             /\ adm.spawned_vq = [adm.spawn_vq EXCEPT ![adm.arrival] = @ + 1]

\* demand arrives while a vehicle is near the entry and is deferred
C16_Witness ==
    /\ adm.arrival # "none"
    /\ NearEntry(adm.spawn_cars, adm.arrival)
    /\ adm.spawned = adm.spawn_cars
    /\ adm.spawned_vq[adm.arrival] = adm.spawn_vq[adm.arrival] + 1

\* C17: every vehicle a tick removes from the live set is outside the
\* simulation bounds at the end of the tick and has its counted flag set.
C17_RemovedAreCounted ==
    \A i \in Processed :
        (\A k \in 1..Len(cars) : cars[k].id # phys.after[i].id)
            => /\ ~InCanvas(phys.after[i], canvas_width, canvas_height)
               /\ phys.after[i].counted

\* C18: a tick that starts in GREEN with no queue on the active approach, a
\* queue on some other approach and the timer above 20 switches to YELLOW.
C18_IdleApproachYields ==
    (/\ Ticked
     /\ obs.start_state = "GREEN"
     /\ obs.queues[obs.active_lane] = 0
     /\ \E l \in Lanes \ {obs.active_lane} : obs.queues[l] > 0
     /\ obs.timer > 20)
    => (/\ fsm_state = "YELLOW"
        /\ state_timer = 0
        /\ lights[obs.active_lane] = "yellow")

\* the guard switches before min-green has passed
C18_Witness ==
    /\ Ticked
    /\ obs.start_state = "GREEN"
    /\ obs.queues[obs.active_lane] = 0
    /\ \E l \in Lanes \ {obs.active_lane} : obs.queues[l] > 0
    /\ obs.timer > 20
    /\ obs.timer <= current_min_green
    /\ fsm_state = "YELLOW"

\* C19: a tick that starts in YELLOW leaves it iff the timer exceeds 45, for
\* ALL_RED with the timer at 0 and the active light red; otherwise nothing but
\* the timer changes.  The timer of a YELLOW tick runs from 1 to 46, so every
\* YELLOW phase lasts 46 ticks.
C19_YellowFixed ==
    /\ fsm_state = "YELLOW" => state_timer <= 45
    /\ (Ticked /\ obs.start_state = "YELLOW") =>
          /\ obs.timer >= 1 /\ obs.timer <= 46
          /\ obs.timer > 45 =>
                /\ fsm_state = "ALL_RED"
                /\ state_timer = 0
                /\ lights[obs.active_lane] = "red"
          /\ obs.timer <= 45 =>
                /\ fsm_state = "YELLOW"
                /\ state_timer = obs.timer
                /\ lights = obs.start_lights
          /\ current_phase_idx = obs.start_idx

\* the 46th tick of a YELLOW phase
C19_Witness ==
    /\ Ticked
    /\ obs.start_state = "YELLOW"
    /\ obs.timer = 46
    /\ fsm_state = "ALL_RED"
    /\ lights[obs.active_lane] = "red"

\* C20: the drain places exactly one vehicle for every approach whose virtual
\* counter is above 0 and whose entry is free, taking 1 off the counter, and
\* places nothing and leaves the counter for every other approach; the
\* counters stay at or above 0 and lose at most 1 in a tick.
C20_DrainOnePerApproach ==
    /\ Len(adm.drained) >= Len(adm.drain_cars)
    /\ SubSeq(adm.drained, 1, Len(adm.drain_cars)) = adm.drain_cars
    /\ \A l \in Lanes :
          /\ IF adm.spawned_vq[l] > 0 /\ ~NearEntry(adm.drain_cars, l)
             THEN /\ Cardinality({i \in (Len(adm.drain_cars) + 1)..Len(adm.drained) :
                                     adm.drained[i].lane = l}) = 1
                  /\ adm.drained_vq[l] = adm.spawned_vq[l] - 1
             ELSE /\ \A i \in (Len(adm.drain_cars) + 1)..Len(adm.drained) :
                         adm.drained[i].lane # l
                  /\ adm.drained_vq[l] = adm.spawned_vq[l]
          /\ adm.drained_vq[l] >= adm.spawn_vq[l] - 1
          /\ adm.drained_vq[l] >= 0
          /\ virtual_queues[l] >= 0

\* an approach whose counter has already given vehicles to the road (a surge
\* of 15 and one deferred arrival are the most it can have received) has its
\* entry blocked in this tick and keeps its counter
C20_Witness ==
    \E l \in Lanes :
        /\ adm.spawned_vq[l] > 0
        /\ adm.spawned_vq[l] <= SURGE - 2
        /\ NearEntry(adm.drain_cars, l)
        /\ adm.drained_vq[l] = adm.spawned_vq[l]
        /\ \A i \in (Len(adm.drain_cars) + 1)..Len(adm.drained) : adm.drained[i].lane # l

\* C22: for each of the nine fuzzy sets (a, b, c, d) and the input x it is
\* applied to, the membership degree calculate returns is 0 for x below a,
\* (x - a) / (b - a) from a up to b, exactly 1 for b <= x <= c,
\* (d - x) / (d - c) from c up to d, and 0 for x above d; the shoulder sets
\* (a = b, c = d) included.
C22_TrapezoidShape ==
    fz.called =>
        \A t \in {<<fz.res.last_inputs.clearance_time, CLEAR_SHORT, fz.res.mu_clear[1]>>,
                  <<fz.res.last_inputs.clearance_time, CLEAR_MED, fz.res.mu_clear[2]>>,
                  <<fz.res.last_inputs.clearance_time, CLEAR_LONG, fz.res.mu_clear[3]>>,
                  <<fz.res.last_inputs.imbalance_ratio, IMBAL_LOW, fz.res.mu_imbal[1]>>,
                  <<fz.res.last_inputs.imbalance_ratio, IMBAL_MED, fz.res.mu_imbal[2]>>,
                  <<fz.res.last_inputs.imbalance_ratio, IMBAL_HIGH, fz.res.mu_imbal[3]>>,
                  <<fz.res.last_inputs.urgency_index, URG_LOW, fz.res.mu_urg[1]>>,
                  <<fz.res.last_inputs.urgency_index, URG_MED, fz.res.mu_urg[2]>>,
                  <<fz.res.last_inputs.urgency_index, URG_HIGH, fz.res.mu_urg[3]>>} :
            /\ RLt(t[1], t[2][1]) => t[3] = RInt(0)
            /\ (RLe(t[2][1], t[1]) /\ RLt(t[1], t[2][2]))
                  => t[3] = RDiv(RSub(t[1], t[2][1]), RSub(t[2][2], t[2][1]))
            /\ (RLe(t[2][2], t[1]) /\ RLe(t[1], t[2][3])) => t[3] = RInt(1)
            /\ (RLt(t[2][3], t[1]) /\ RLe(t[1], t[2][4]))
                  => t[3] = RDiv(RSub(t[2][4], t[1]), RSub(t[2][4], t[2][3]))
            /\ RLt(t[2][4], t[1]) => t[3] = RInt(0)

\* C23: for active_queue = 0, max_other_queue = 5, max_wait = 50,
\* flow_ratio = 1.0 the Switch-empty activation (the fifth returned rule
\* strength) is min(Short clearance, max(Medium imbalance, High imbalance))
\* times its weight, is positive and equals the total of the switch group.
C23_SwitchEmptyDominates ==
    (fz.called /\ fz.args = <<0, 5, 50, 1>>) =>
        /\ fz.res.rules[5] =
              RMul(RMin(fz.res.mu_clear[1], RMax(fz.res.mu_imbal[2], fz.res.mu_imbal[3])),
                   RULE_WEIGHTS.switch_empty)
        /\ RLt(RInt(0), fz.res.rules[5])
        /\ fz.res.rules[5] =
              EvalRules(Fuzzify(fz.res.last_inputs.clearance_time,
                                fz.res.last_inputs.imbalance_ratio,
                                fz.res.last_inputs.urgency_index),
                        fz.args[1]).r2_total

\* C24: the rule activations calculate returns are enough to recompute the
\* three group totals of the defuzzification: the largest of the returned keep
\* rules, of the returned switch rules and of the returned conflict rules are
\* the totals the score was computed from.
C24_TotalsRecomputable ==
    fz.called =>
        /\ RMax3(fz.res.rules[1], fz.res.rules[2], fz.res.rules[3]) =
              EvalRules(Fuzzify(fz.res.last_inputs.clearance_time,
                                fz.res.last_inputs.imbalance_ratio,
                                fz.res.last_inputs.urgency_index),
                        fz.args[1]).r1_total
        /\ RMax3(fz.res.rules[4], fz.res.rules[5], fz.res.rules[6]) =
              EvalRules(Fuzzify(fz.res.last_inputs.clearance_time,
                                fz.res.last_inputs.imbalance_ratio,
                                fz.res.last_inputs.urgency_index),
                        fz.args[1]).r2_total
        /\ RMax(fz.res.rules[7], fz.res.rules[8]) =
              EvalRules(Fuzzify(fz.res.last_inputs.clearance_time,
                                fz.res.last_inputs.imbalance_ratio,
                                fz.res.last_inputs.urgency_index),
                        fz.args[1]).r3_total

\* C30: for fixed queue lengths the score does not grow with the longest wait:
\* every longer wait of the grid gives a score that is not higher, and a score
\* below 35 stays below 35.
C30_MoreWaitNeverKeepsMore ==
    fz.called =>
        \A w \in FzWaits :
            w >= fz.args[3] =>
                /\ RLe(calculate(fz.args[1], fz.args[2], RInt(w), RInt(fz.args[4])).score,
                       fz.res.score)
                /\ RLt(fz.res.score, RInt(35)) =>
                      RLt(calculate(fz.args[1], fz.args[2], RInt(w), RInt(fz.args[4])).score,
                          RInt(35))

\* C21: a vehicle placed on the road, by the spawn loop or from the virtual
\* queue, has no non-virtual vehicle of its approach within the minimum
\* spacing (16) of the position it is placed at, and no approach receives more
\* than one new vehicle in a tick.
C21_NoOverlappingSpawns ==
    /\ \A j \in (Len(adm.spawn_cars) + 1)..Len(adm.spawned) :
       \A i \in 1..Len(adm.spawn_cars) :
          (adm.spawn_cars[i].lane = adm.spawned[j].lane /\ ~adm.spawn_cars[i].is_virtual)
              => DistSq(adm.spawn_cars[i], adm.spawned[j]) >= H(16) * H(16)
    /\ \A j \in (Len(adm.drain_cars) + 1)..Len(adm.drained) :
       \A i \in 1..Len(adm.drain_cars) :
          (adm.drain_cars[i].lane = adm.drained[j].lane /\ ~adm.drain_cars[i].is_virtual)
              => DistSq(adm.drain_cars[i], adm.drained[j]) >= H(16) * H(16)
    /\ \A l \in Lanes :
          Cardinality({j \in (Len(adm.spawn_cars) + 1)..Len(adm.spawned) :
                          adm.spawned[j].lane = l})
          + Cardinality({j \in (Len(adm.drain_cars) + 1)..Len(adm.drained) :
                            adm.drained[j].lane = l}) <= 1

\* C25: the physical part of the queue handed to update_fsm counts the
\* vehicles of the approach that are on the road and not yet counted as
\* through the intersection.
C25_QueueExcludesCrossed ==
    Ticked =>
        \A l \in Lanes :
            obs.queues[l] - adm.drained_vq[l] =
                Cardinality({i \in 1..Len(adm.drained) :
                                /\ adm.drained[i].lane = l
                                /\ ~adm.drained[i].is_virtual
                                /\ ~adm.drained[i].counted})

\* C26: at the end of every tick the lights agree with the FSM state: the
\* active light is green in GREEN and yellow in YELLOW, all lights are red in
\* ALL_RED, and the three other lights are red in every state.
C26_LightsAgree ==
    Ticked =>
        /\ fsm_state = "GREEN" => lights[phase_order[current_phase_idx + 1]] = "green"
        /\ fsm_state = "YELLOW" => lights[phase_order[current_phase_idx + 1]] = "yellow"
        /\ fsm_state = "ALL_RED" => \A l \in Lanes : lights[l] = "red"
        /\ \A l \in Lanes \ {phase_order[current_phase_idx + 1]} : lights[l] = "red"

\* the box test of update_fsm for one car
InBox(c, w, h) ==
    /\ w - H(100) < c.x /\ c.x < w + H(100)
    /\ h - H(100) < c.y /\ c.y < h + H(100)

AllRed(lts) == \A l \in Lanes : lts[l] = "red"

\* C27: with vehicles admitted at the lane entries and a canvas that keeps its
\* size, a vehicle inside the central box moves forward in every tick (so it
\* leaves the box), no vehicle enters the box in a tick that starts with all
\* four lights red, and every ALL_RED state is followed by GREEN.
C27_AllRedEnds ==
    /\ [][tick' = tick + 1 =>
            \A i \in 1..Len(cars) : \A j \in 1..Len(cars') :
               (cars[i].id = cars'[j].id /\ InBox(cars[i], canvas_width, canvas_height))
                  => DistToStop(cars'[j]) < DistToStop(cars[i])]_vars
    /\ [][(tick' = tick + 1 /\ AllRed(lights)) =>
            \A i \in 1..Len(cars) : \A j \in 1..Len(cars') :
               (cars[i].id = cars'[j].id /\ InBox(cars'[j], canvas_width, canvas_height))
                  => InBox(cars[i], canvas_width, canvas_height)]_vars
    /\ (fsm_state = "ALL_RED" /\ tick + all_red_ticks < horizon) ~> (fsm_state = "GREEN")

\* an ALL_RED phase ends in GREEN while a vehicle waits inside the braking
\* envelope of its stop line and another vehicle has been through the box
C27_Witness ==
    /\ Ticked
    /\ obs.start_state = "ALL_RED"
    /\ fsm_state = "GREEN"
    /\ counted_ids # {}
    /\ \E i \in 1..Len(cars) :
          /\ ~cars[i].is_virtual
          /\ DistToStop(cars[i]) > H(-10)
          /\ DistToStop(cars[i]) < H(50)
          /\ cars[i].speed = 0

\* C29: a vehicle that is before its stop line when a tick starts with its
\* light red is not past the stop line after the physics of that tick.
C29_NoRedRunning ==
    Ticked =>
        \A i \in 1..Len(phys.before) : \A j \in 1..Len(phys.after) :
           (/\ phys.before[i].id = phys.after[j].id
            /\ ~phys.before[i].is_virtual
            /\ obs.start_lights[phys.before[i].lane] = "red"
            /\ DistToStop(phys.before[i]) > 0)
              => DistToStop(phys.after[j]) >= 0

\* a vehicle inside the braking envelope of a red light is still moving, and
\* is not past the line after the tick
C29_Witness ==
    /\ Ticked
    /\ \E i \in 1..Len(phys.before) : \E j \in 1..Len(phys.after) :
          /\ phys.before[i].id = phys.after[j].id
          /\ ~phys.before[i].is_virtual
          /\ obs.start_lights[phys.before[i].lane] = "red"
          /\ DistToStop(phys.before[i]) > 0
          /\ DistToStop(phys.before[i]) < H(50)
          /\ phys.before[i].speed > 0
          /\ DistToStop(phys.after[j]) >= 0

====
